---- MODULE Spec2Model ----
(***************************************************************************)
(* A model of the dustfall simulation engine (src/src/engine.rs): a table  *)
(* of containers holding gas, fluid and solid amounts, a list of reactions *)
(* and a list of pipes, and the tick() step function.                      *)
(*                                                                         *)
(* Container ids are the 0-based indices of the source; TLA+ sequences are *)
(* 1-based, so container id i is containers[i + 1].                        *)
(* Amounts, volumes and rates are mathematical integers; every input set   *)
(* below keeps them many orders of magnitude inside the i64 range, so the  *)
(* model does not explore the wrap-around of the 64-bit fields; the one    *)
(* exception is gas_from_parts, whose products are taken at a small width. *)
(* A panic (a failed assert!, an out-of-bounds index) ends the run: the    *)
(* variable panicked records its message and no action is enabled after.   *)
(***************************************************************************)
EXTENDS Integers, Sequences, FiniteSets, TLC

VARIABLES
    containers,   \* Engine.containers: Vec<Container>
    pipes,        \* Engine.pipes: Vec<Pipe>
    reactions,    \* Engine.reactions: Vec<Reaction>
    root,         \* Engine.root: ContainerId
    pc,           \* position inside tick(): "idle", "reactions" or "pipes"
    idx,          \* 1-based position of the loop tick() is in
    panicked,     \* "none", or the message of the panic that ended the run
    \* History of the run, read by the properties only:
    start,        \* the container table when the running tick() was called
    tried,        \* indices of the reactions the running tick() has tried
    flowed,       \* indices of the pipes the running tick() has applied
    last,         \* the last loop pass of the running tick()
    rejected,     \* the reaction a panicking add_reaction was called with
    clean,        \* every container was created with amounts >= 0
    seen,         \* indices of the reactions skipped / applied in some pass so far
    \* Calls of the functions that return a value:
    call,         \* the free function or getter called, with its arguments
    result        \* what the last such call, or add_container, returned

vars ==
    <<containers, pipes, reactions, root, pc, idx, panicked,
      start, tried, flowed, last, rejected, clean, seen, call, result>>

engine == <<containers, pipes, reactions, root>>

history == <<start, tried, flowed, last>>

----------------------------------------------------------------------------
(* Bounds of the model. *)

\* The number of add_container, add_pipe and add_reaction calls of a run.
MaxCalls == 3

\* The largest amount and the largest flow rate of the two-container engines.
MaxAmount == 5
MaxRate == 3

----------------------------------------------------------------------------
(* Quantity types. *)

Gas(o2, co2, co, h2o) == [o2 |-> o2, co2 |-> co2, co |-> co, h2o |-> h2o]

Fluid(h2o) == [h2o |-> h2o]

Solid(ch2o) == [ch2o |-> ch2o]

gas_zero == Gas(0, 0, 0, 0)

fluid_zero == Fluid(0)

solid_zero == Solid(0)

is_non_negative(g) == g.o2 >= 0 /\ g.co2 >= 0 /\ g.co >= 0 /\ g.h2o >= 0

\* Rust's integer division truncates toward zero; \div floors.
TruncDiv(n, d) ==
    IF d > 0
    THEN (IF n >= 0 THEN n \div d ELSE -((-n) \div d))
    ELSE (IF n >= 0 THEN -(n \div (-d)) ELSE (-n) \div (-d))

partial_pressure(amount, volume) == TruncDiv(amount, volume)

gas_pressure(g, volume) ==
    partial_pressure(g.o2, volume) + partial_pressure(g.co2, volume)
        + partial_pressure(g.co, volume) + partial_pressure(g.h2o, volume)

\* Gas::can_apply_delta with > for >=: an amount may not be used up.
gas_can_apply_delta_strict(g, delta) ==
    /\ g.o2 + delta.o2 > 0
    /\ g.co2 + delta.co2 > 0
    /\ g.co + delta.co > 0
    /\ g.h2o + delta.h2o > 0

gas_can_apply_delta(g, delta) ==
    /\ g.o2 + delta.o2 >= 0
    /\ g.co2 + delta.co2 >= 0
    /\ g.co + delta.co >= 0
    /\ g.h2o + delta.h2o >= 0

\* apply_delta with the co line copied from the co2 line above it.
gas_apply_delta_copied(g, delta) ==
    Gas(g.o2 + delta.o2, g.co2 + delta.co2, g.co + delta.co2, g.h2o + delta.h2o)

gas_apply_delta(g, delta) ==
    Gas(g.o2 + delta.o2, g.co2 + delta.co2, g.co + delta.co, g.h2o + delta.h2o)

fluid_can_apply_delta(f, delta) == f.h2o + delta.h2o >= 0

\* Fluid::apply_delta storing the delta (= for +=).
fluid_apply_delta_assigned(f, delta) == Fluid(delta.h2o)

fluid_apply_delta(f, delta) == Fluid(f.h2o + delta.h2o)

\* Solid::can_apply_delta testing the amount held, not the amount left.
solid_can_apply_delta_held(s, delta) == s.ch2o >= 0

solid_can_apply_delta(s, delta) == s.ch2o + delta.ch2o >= 0

solid_apply_delta(s, delta) == Solid(s.ch2o + delta.ch2o)

----------------------------------------------------------------------------
(* Container, Pipe, Reaction. *)

Container(volume, gas, fluid, solid) ==
    [volume |-> volume, gas |-> gas, fluid |-> fluid, solid |-> solid,
     children |-> <<>>]

Pipe(a, b, flow_rate) == [a |-> a, b |-> b, flow_rate |-> flow_rate]

Reaction(container, gas_delta, fluid_delta, solid_delta) ==
    [container |-> container, gas_delta |-> gas_delta,
     fluid_delta |-> fluid_delta, solid_delta |-> solid_delta]

carbon(gas, fluid, solid) == gas.co2 + gas.co + solid.ch2o

hydrogen(gas, fluid, solid) == 2 * (gas.h2o + fluid.h2o + solid.ch2o)

oxygen(gas, fluid, solid) ==
    2 * gas.o2 + 2 * gas.co2 + gas.co + gas.h2o + fluid.h2o + solid.ch2o

\* check with the oxygen sum forgotten.
check_without_oxygen(r) ==
    /\ carbon(r.gas_delta, r.fluid_delta, r.solid_delta) = 0
    /\ hydrogen(r.gas_delta, r.fluid_delta, r.solid_delta) = 0

check(r) ==
    /\ carbon(r.gas_delta, r.fluid_delta, r.solid_delta) = 0
    /\ hydrogen(r.gas_delta, r.fluid_delta, r.solid_delta) = 0
    /\ oxygen(r.gas_delta, r.fluid_delta, r.solid_delta) = 0

----------------------------------------------------------------------------
(* Pipe flow. *)

Min(x, y) == IF x <= y THEN x ELSE y

\* flow_amount rounding the levelling amount away from zero.
flow_amount_rounded_up(amount_a, volume_a, amount_b, volume_b, max_flow) ==
    LET va == volume_a
        vb == volume_b
        numerator == amount_a * vb - amount_b * va
        denom == va + vb
    IN  IF denom <= 0
        THEN 0
        ELSE LET equalize == IF numerator >= 0
                             THEN TruncDiv(numerator + denom - 1, denom)
                             ELSE TruncDiv(numerator - denom + 1, denom)
                 hi == Min(amount_a, max_flow)
                 lo == -Min(amount_b, max_flow)
             IN  IF equalize > hi THEN hi
                 ELSE IF equalize < lo THEN lo
                 ELSE equalize

\* flow_amount rounding the levelling amount to the nearest integer instead
\* of toward zero.
flow_amount_rounded(amount_a, volume_a, amount_b, volume_b, max_flow) ==
    LET va == volume_a
        vb == volume_b
        numerator == amount_a * vb - amount_b * va
        denom == va + vb
    IN  IF denom <= 0
        THEN 0
        ELSE LET half == TruncDiv(denom, 2)
                 equalize == IF numerator >= 0
                             THEN TruncDiv(numerator + half, denom)
                             ELSE TruncDiv(numerator - half, denom)
                 hi == Min(amount_a, max_flow)
                 lo == -Min(amount_b, max_flow)
             IN  IF equalize > hi THEN hi
                 ELSE IF equalize < lo THEN lo
                 ELSE equalize

\* flow_amount without the clamp to the flow rate of the pipe.
flow_amount_unbounded(amount_a, volume_a, amount_b, volume_b, max_flow) ==
    LET numerator == amount_a * volume_b - amount_b * volume_a
        denom == volume_a + volume_b
    IN  IF denom <= 0
        THEN 0
        ELSE LET equalize == TruncDiv(numerator, denom)
                 hi == amount_a
                 lo == -amount_b
             IN  IF equalize > hi THEN hi
                 ELSE IF equalize < lo THEN lo
                 ELSE equalize

\* flow_amount levelling the amounts, not the partial pressures.
flow_amount_ignoring_volume(amount_a, volume_a, amount_b, volume_b, max_flow) ==
    LET numerator == amount_a - amount_b
        denom == 2
    IN  IF volume_a + volume_b <= 0
        THEN 0
        ELSE LET equalize == TruncDiv(numerator, denom)
                 hi == Min(amount_a, max_flow)
                 lo == -Min(amount_b, max_flow)
             IN  IF equalize > hi THEN hi
                 ELSE IF equalize < lo THEN lo
                 ELSE equalize

\* The arithmetic is done in i128 in the source, where the cross products of two
\* i64 values cannot overflow; the final cast back to i64 is the identity on the
\* clamped value.
flow_amount(amount_a, volume_a, amount_b, volume_b, max_flow) ==
    LET va == volume_a
        vb == volume_b
        numerator == amount_a * vb - amount_b * va
        denom == va + vb
    IN  IF denom <= 0
        THEN 0
        ELSE LET equalize == TruncDiv(numerator, denom)
                 hi == Min(amount_a, max_flow)
                 lo == -Min(amount_b, max_flow)
             IN  IF equalize > hi THEN hi
                 ELSE IF equalize < lo THEN lo
                 ELSE equalize

\* The message of the panic container_pair_mut(a, b) ends in on a table of len
\* containers, or "none": the assertion, then split_at_mut(mid) (mid > len) and
\* right[0] (mid = len).
pair_panic(a, b, len) ==
    IF a = b THEN "container pair must be different"
    ELSE IF (IF a < b THEN b ELSE a) >= len THEN "index out of bounds"
    ELSE "none"

\* container_pair_mut returning the lower id first, whatever the order asked.
container_pair_mut_sorted(a, b) ==
    IF a < b
    THEN LET mid == b IN <<a, mid + 0>>
    ELSE LET mid == a IN <<b, mid + 0>>

\* The ids of the two containers container_pair_mut(a, b) returns, in the order
\* it returns them: split_at_mut(mid) gives left = ids 0..mid-1 and right = ids
\* mid.., so left[i] is id i and right[0] is id mid.
container_pair_mut(a, b) ==
    IF a < b
    THEN LET mid == b IN <<a, mid + 0>>
    ELSE LET mid == a IN <<mid + 0, b>>

\* The flow of each species from the first to the second container of the pair.
pipe_flows(cs, pipe) ==
    LET pair == container_pair_mut(pipe.a, pipe.b)
        a == cs[pair[1] + 1]
        b == cs[pair[2] + 1]
    IN  Gas(flow_amount(a.gas.o2, a.volume, b.gas.o2, b.volume, pipe.flow_rate.o2),
            flow_amount(a.gas.co2, a.volume, b.gas.co2, b.volume, pipe.flow_rate.co2),
            flow_amount(a.gas.co, a.volume, b.gas.co, b.volume, pipe.flow_rate.co),
            flow_amount(a.gas.h2o, a.volume, b.gas.h2o, b.volume, pipe.flow_rate.h2o))

\* apply_pipe_flow with the co2 and co lines of inverse exchanged.
apply_pipe_flow_crossed(cs, pipe) ==
    LET pair == container_pair_mut(pipe.a, pipe.b)
        flow == pipe_flows(cs, pipe)
        delta == Gas(-flow.o2, -flow.co2, -flow.co, -flow.h2o)
        inverse == Gas(flow.o2, flow.co, flow.co2, flow.h2o)
    IN  [cs EXCEPT ![pair[1] + 1].gas = gas_apply_delta(@, delta),
                   ![pair[2] + 1].gas = gas_apply_delta(@, inverse)]

\* apply_pipe_flow delivering what leaves a to the first container of the
\* table instead of to b.
apply_pipe_flow_into_first(cs, pipe) ==
    LET pair == container_pair_mut(pipe.a, pipe.b)
        flow == pipe_flows(cs, pipe)
        delta == Gas(-flow.o2, -flow.co2, -flow.co, -flow.h2o)
        inverse == Gas(flow.o2, flow.co2, flow.co, flow.h2o)
    IN  [cs EXCEPT ![pair[1] + 1].gas = gas_apply_delta(@, delta),
                   ![1].gas = gas_apply_delta(@, inverse)]

\* apply_pipe_flow applying delta to both containers.
apply_pipe_flow_same_delta(cs, pipe) ==
    LET pair == container_pair_mut(pipe.a, pipe.b)
        flow == pipe_flows(cs, pipe)
        delta == Gas(-flow.o2, -flow.co2, -flow.co, -flow.h2o)
    IN  [cs EXCEPT ![pair[1] + 1].gas = gas_apply_delta(@, delta),
                   ![pair[2] + 1].gas = gas_apply_delta(@, delta)]

\* The container table after apply_pipe_flow(pipe), for a pair that does not panic.
apply_pipe_flow(cs, pipe) ==
    LET pair == container_pair_mut(pipe.a, pipe.b)
        flow == pipe_flows(cs, pipe)
        delta == Gas(-flow.o2, -flow.co2, -flow.co, -flow.h2o)
        inverse == Gas(flow.o2, flow.co2, flow.co, flow.h2o)
    IN  [cs EXCEPT ![pair[1] + 1].gas = gas_apply_delta(@, delta),
                   ![pair[2] + 1].gas = gas_apply_delta(@, inverse)]

----------------------------------------------------------------------------
(* Reaction application: the body of the first loop of tick(). *)

\* reaction_feasible with a latch: a reaction skipped once stays skipped.
reaction_feasible_latched(c, r) ==
    /\ r \notin {reactions[k] : k \in seen.skipped}
    /\ ~ ( \/ ~gas_can_apply_delta(c.gas, r.gas_delta)
           \/ ~fluid_can_apply_delta(c.fluid, r.fluid_delta)
           \/ ~solid_can_apply_delta(c.solid, r.solid_delta) )

\* reaction_feasible with the check of the solid forgotten.
reaction_feasible_no_solid(c, r) ==
    ~ ( \/ ~gas_can_apply_delta(c.gas, r.gas_delta)
        \/ ~fluid_can_apply_delta(c.fluid, r.fluid_delta) )

reaction_feasible(c, r) ==
    ~ ( \/ ~gas_can_apply_delta(c.gas, r.gas_delta)
        \/ ~fluid_can_apply_delta(c.fluid, r.fluid_delta)
        \/ ~solid_can_apply_delta(c.solid, r.solid_delta) )

\* apply_reaction checking and applying one category after the other: the gas
\* delta is applied before the fluid and the solid are checked.
apply_reaction_partial(c, r) ==
    IF ~gas_can_apply_delta(c.gas, r.gas_delta)
    THEN c
    ELSE LET g == [c EXCEPT !.gas = gas_apply_delta(@, r.gas_delta)]
         IN  IF \/ ~fluid_can_apply_delta(c.fluid, r.fluid_delta)
                \/ ~solid_can_apply_delta(c.solid, r.solid_delta)
             THEN g
             ELSE [g EXCEPT !.fluid = fluid_apply_delta(@, r.fluid_delta),
                            !.solid = solid_apply_delta(@, r.solid_delta)]

\* The container after one pass of the loop body for reaction r.
apply_reaction(c, r) ==
    IF ~reaction_feasible(c, r)
    THEN c
    ELSE [c EXCEPT !.gas = gas_apply_delta(@, r.gas_delta),
                   !.fluid = fluid_apply_delta(@, r.fluid_delta),
                   !.solid = solid_apply_delta(@, r.solid_delta)]

----------------------------------------------------------------------------
(* Inputs of the calls. *)

\* Volume::new accepts every i64: zero is a volume the calls take.
VolumeInputs == {0, 1, 2}

Contents(gas, fluid, solid) == [gas |-> gas, fluid |-> fluid, solid |-> solid]

contents_non_negative(c) ==
    is_non_negative(c.gas) /\ c.fluid.h2o >= 0 /\ c.solid.ch2o >= 0

\* What a container is created with: nothing, a stocked habitat, or (the
\* constructors check no amount) a negative amount.
ContentInputs ==
    { Contents(gas_zero, fluid_zero, solid_zero),
      Contents(Gas(3, 2, 0, 0), Fluid(1), Solid(1)),
      Contents(Gas(-1, 0, 0, 0), Fluid(0), Solid(0)) }

\* Ids a caller can hold: ContainerId has no public constructor, so an id comes
\* from root() or add_container of some engine, this one or another.
IdInputs == {0, 1}

RateInputs ==
    { Gas(1, 3, 0, 1), Gas(3, 0, 1, 0), Gas(0, 0, 0, -1) }

\* Deltas of add_reaction: respiration, photosynthesis, CO2 splitting, the zero
\* reaction, and deltas that miss the balance of oxygen only, of hydrogen only
\* and of carbon only.
DeltaInputs ==
    { Contents(Gas(-1, 1, 0, 1), Fluid(0), Solid(-1)),
      Contents(Gas(1, -1, 0, 0), Fluid(-1), Solid(1)),
      Contents(Gas(1, -2, 2, 0), Fluid(0), Solid(0)),
      Contents(gas_zero, fluid_zero, solid_zero),
      Contents(Gas(-1, 0, 0, 0), Fluid(0), Solid(0)),
      Contents(Gas(0, -1, 1, 1), Fluid(0), Solid(0)),
      Contents(Gas(-1, 0, 2, 0), Fluid(0), Solid(0)) }

----------------------------------------------------------------------------
(* The engine. *)

\* A pass of a loop of tick(): which loop, the index of the reaction or pipe,
\* the container table before the pass, whether the reaction or flow was
\* applied, and the flow of each species (a pipe).
Step(op, index, before, applied, flow) ==
    [op |-> op, index |-> index, before |-> before, applied |-> applied,
     flow |-> flow]

NoStep == Step("none", 0, <<>>, FALSE, gas_zero)

\* No reaction has been tried yet.
NoneSeen == [skipped |-> {}, applied |-> {}]

NoReaction == Reaction(0, gas_zero, fluid_zero, solid_zero)

\* A call of function fn with the tuple args of arguments; no call.
Call(fn, args) == [fn |-> fn, args |-> args]

NoCall == Call("none", <<>>)

\* The value a call returned; nothing returned (yet).
Returned(value) == [returned |-> TRUE, value |-> value]

NoResult == [returned |-> FALSE, value |-> 0]

\* insert_container putting the new container in front of the table.
insert_container_first(cs, volume, gas, fluid, solid) ==
    <<Container(volume, gas, fluid, solid)>> \o cs

\* insert_container: the table with the new container pushed; its id is the
\* length of the table before.
insert_container(cs, volume, gas, fluid, solid) ==
    Append(cs, Container(volume, gas, fluid, solid))

\* The engine Engine::new(volume, gas, fluid, solid) returns, no tick running.
Constructed(volume, c) ==
    /\ containers = insert_container(<<>>, volume, c.gas, c.fluid, c.solid)
    /\ pipes = <<>>
    /\ reactions = <<>>
    /\ root = 0
    /\ pc = "idle"
    /\ idx = 0
    /\ panicked = "none"
    /\ start = <<>>
    /\ tried = {}
    /\ flowed = {}
    /\ last = NoStep
    /\ rejected = NoReaction
    /\ seen = NoneSeen
    /\ clean = contents_non_negative(c)

\* The state Engine::new(volume, gas, fluid, solid) returns.
New(volume, c) ==
    /\ Constructed(volume, c)
    /\ call = NoCall
    /\ result = NoResult

Init == \E volume \in VolumeInputs, c \in ContentInputs : New(volume, c)

Callable == pc = "idle" /\ panicked = "none"

\* Containers are added while a caller's id can still name the new one.
MaxContainers == Cardinality(IdInputs)

\* The registration calls made so far (a call that panics ends the run).
Calls == (Len(containers) - 1) + Len(pipes) + Len(reactions)

\* add_container pushing the parent onto the child list of the new container.
add_container_adopting(parent, volume, c) ==
    LET id == Len(containers)
        pushed == insert_container(containers, volume, c.gas, c.fluid, c.solid)
    IN  /\ IF parent >= Len(pushed)
           THEN /\ containers' = pushed
                /\ panicked' = "index out of bounds"
                /\ result' = result
           ELSE /\ containers' =
                     [pushed EXCEPT ![id + 1].children = Append(@, parent)]
                /\ panicked' = "none"
                /\ result' = Returned(id)
        /\ clean' = (clean /\ contents_non_negative(c))
        /\ UNCHANGED <<pipes, reactions, root, pc, idx, history, rejected, seen>>

\* Engine::add_container(parent, volume, gas, fluid, solid)
add_container(parent, volume, c) ==
    LET id == Len(containers)
        pushed == insert_container(containers, volume, c.gas, c.fluid, c.solid)
    IN  /\ IF parent >= Len(pushed)
           THEN /\ containers' = pushed
                /\ panicked' = "index out of bounds"
                /\ result' = result
           ELSE /\ containers' =
                     [pushed EXCEPT ![parent + 1].children = Append(@, id)]
                /\ panicked' = "none"
                /\ result' = Returned(id)
        /\ clean' = (clean /\ contents_non_negative(c))
        /\ UNCHANGED <<pipes, reactions, root, pc, idx, history, rejected, seen>>

AddContainer ==
    /\ Callable
    /\ Calls < MaxCalls
    /\ Len(containers) < MaxContainers
    /\ \E parent \in IdInputs, volume \in VolumeInputs, c \in ContentInputs :
         add_container(parent, volume, c)
    /\ UNCHANGED call

\* add_pipe pushing Pipe { a, b, flow_rate } without the assertion of Pipe::new.
add_pipe_unvalidated_rates(a, b, flow_rate) ==
    /\ IF a = b
       THEN /\ panicked' = "pipe endpoints must be different"
            /\ pipes' = pipes
       ELSE /\ panicked' = "none"
            /\ pipes' = Append(pipes, Pipe(a, b, flow_rate))
    /\ UNCHANGED <<containers, reactions, root, pc, idx, history, rejected, seen, clean,
                   call, result>>

\* Engine::add_pipe(a, b, flow_rate)
add_pipe(a, b, flow_rate) ==
    /\ IF a = b
       THEN /\ panicked' = "pipe endpoints must be different"
            /\ pipes' = pipes
       ELSE IF ~is_non_negative(flow_rate)
       THEN /\ panicked' = "flow rates must be non-negative"
            /\ pipes' = pipes
       ELSE /\ panicked' = "none"
            /\ pipes' = Append(pipes, Pipe(a, b, flow_rate))
    /\ UNCHANGED <<containers, reactions, root, pc, idx, history, rejected, seen, clean,
                   call, result>>

AddPipe ==
    /\ Callable
    /\ Calls < MaxCalls
    /\ \E a \in IdInputs, b \in IdInputs, flow_rate \in RateInputs :
         add_pipe(a, b, flow_rate)

\* Engine::add_reaction(container, gas_delta, fluid_delta, solid_delta)
add_reaction(container, gas_delta, fluid_delta, solid_delta) ==
    LET reaction == Reaction(container, gas_delta, fluid_delta, solid_delta)
    IN  /\ IF ~check(reaction)
           THEN /\ panicked' = "reaction is not atom-balanced"
                /\ reactions' = reactions
                /\ rejected' = reaction
           ELSE /\ panicked' = "none"
                /\ reactions' = Append(reactions, reaction)
                /\ rejected' = rejected
        /\ UNCHANGED <<containers, pipes, root, pc, idx, history, clean, seen, result>>

AddReaction ==
    /\ Callable
    /\ Calls < MaxCalls
    /\ \E container \in IdInputs, d \in DeltaInputs :
         add_reaction(container, d.gas, d.fluid, d.solid)
    /\ UNCHANGED call

----------------------------------------------------------------------------
(* Engine::tick(), one loop pass at a time.  While a tick() runs (pc is not *)
(* "idle") nothing else does: the engine is borrowed mutably by the call.  *)

\* tick() with its two loops in the other order.
tick_phases_swapped == <<"pipes", "reactions">>

\* The loops of tick() in the order the function runs them.
tick_phases == <<"reactions", "pipes">>

\* Where control goes when the loop pc ends: the next loop, or the return.
after_phase(p) == IF p = tick_phases[1] THEN tick_phases[2] ELSE "idle"

\* The call enters the first loop.
Tick ==
    /\ Callable
    /\ pc' = tick_phases[1]
    /\ idx' = 1
    /\ start' = containers
    /\ tried' = {}
    /\ flowed' = {}
    /\ last' = NoStep
    /\ UNCHANGED <<engine, panicked, rejected, seen, clean, call, result>>

\* The loop running over self.reactions.iter().rev().
reaction_at_reversed(k) == reactions[Len(reactions) + 1 - k]

\* The reaction the k-th pass of the loop over self.reactions.iter() sees.
reaction_at(k) == reactions[k]

\* One pass of the loop over the reactions.
ReactionStep ==
    /\ pc = "reactions"
    /\ panicked = "none"
    /\ idx <= Len(reactions)
    /\ LET reaction == reaction_at(idx)
           i == reaction.container
       IN  IF i >= Len(containers)
           THEN /\ panicked' = "index out of bounds"
                /\ last' = Step("reaction", idx, containers, FALSE, gas_zero)
                /\ UNCHANGED <<containers, idx, tried, seen>>
           ELSE /\ containers' =
                     [containers EXCEPT ![i + 1] = apply_reaction(@, reaction)]
                /\ last' = Step("reaction", idx, containers,
                                reaction_feasible(containers[i + 1], reaction),
                                gas_zero)
                /\ idx' = idx + 1
                /\ tried' = tried \cup {idx}
                /\ seen' = IF reaction_feasible(containers[i + 1], reaction)
                           THEN [seen EXCEPT !.applied = @ \cup {idx}]
                           ELSE [seen EXCEPT !.skipped = @ \cup {idx}]
                /\ panicked' = "none"
    /\ UNCHANGED <<pipes, reactions, root, pc, start, flowed, rejected, clean,
                   call, result>>

\* The loop running over the clone of the pipes from its last element.
pipe_at_reversed(k) == pipes[Len(pipes) + 1 - k]

\* The pipe the k-th pass of the loop over self.pipes.clone() sees.
pipe_at(k) == pipes[k]

\* One pass of the loop over (a clone of) the pipes: apply_pipe_flow(pipe).
PipeStep ==
    /\ pc = "pipes"
    /\ panicked = "none"
    /\ idx <= Len(pipes)
    /\ LET pipe == pipe_at(idx)
           panic == pair_panic(pipe.a, pipe.b, Len(containers))
       IN  IF panic # "none"
           THEN /\ panicked' = panic
                /\ last' = Step("pipe", idx, containers, FALSE, gas_zero)
                /\ UNCHANGED <<containers, idx, flowed>>
           ELSE /\ containers' = apply_pipe_flow(containers, pipe)
                /\ last' = Step("pipe", idx, containers, TRUE,
                                pipe_flows(containers, pipe))
                /\ idx' = idx + 1
                /\ flowed' = flowed \cup {idx}
                /\ panicked' = "none"
    /\ UNCHANGED <<pipes, reactions, root, pc, start, tried, rejected, seen, clean,
                   call, result>>

\* The loop pc has passed its last element: the next loop begins, or tick()
\* returns.
loop_done(p, len) ==
    /\ pc = p
    /\ panicked = "none"
    /\ idx > len
    /\ pc' = after_phase(p)
    /\ IF after_phase(p) = "idle"
       THEN /\ idx' = 0
            /\ start' = <<>>
            /\ tried' = {}
            /\ flowed' = {}
            /\ last' = NoStep
       ELSE /\ idx' = 1
            /\ UNCHANGED history
    /\ UNCHANGED <<engine, panicked, rejected, seen, clean, call, result>>

ReactionsDone == loop_done("reactions", Len(reactions))

PipesDone == loop_done("pipes", Len(pipes))

Next ==
    \/ AddContainer
    \/ AddPipe
    \/ AddReaction
    \/ Tick
    \/ ReactionStep
    \/ ReactionsDone
    \/ PipeStep
    \/ PipesDone

Spec == Init /\ [][Next]_vars

----------------------------------------------------------------------------
(* Engines of two containers joined by one pipe, with no reaction: the state *)
(* after Engine::new, add_container(root, ...) and add_pipe(a, b, rate).     *)
(* One species ranges over the amounts and the rate; the other three hold a *)
(* fixed amount in the root and have a flow rate of 0.                      *)

Species == {"o2", "co2", "co", "h2o"}

Of(g, s) ==
    CASE s = "o2" -> g.o2 [] s = "co2" -> g.co2 [] s = "co" -> g.co
      [] s = "h2o" -> g.h2o

\* The gas holding x of species s and rest of each other species.
GasOf(s, x, rest) ==
    Gas(IF s = "o2" THEN x ELSE rest, IF s = "co2" THEN x ELSE rest,
        IF s = "co" THEN x ELSE rest, IF s = "h2o" THEN x ELSE rest)

FlowAmounts == (-1) .. MaxAmount

FlowVolumes == {0, 1, 2, 3}

FlowRates == 0 .. MaxRate

\* The engine Engine::new(va, ga, ..) / add_container(root, vb, gb, ..) /
\* add_pipe(a, b, rate) builds, with zero fluid and solid.
Joined(va, ga, vb, gb, a, b, rate) ==
    /\ containers =
         [insert_container(insert_container(<<>>, va, ga, fluid_zero, solid_zero),
                           vb, gb, fluid_zero, solid_zero)
            EXCEPT ![1].children = <<1>>]
    /\ pipes = <<Pipe(a, b, rate)>>
    /\ reactions = <<>>
    /\ root = 0
    /\ pc = "idle"
    /\ idx = 0
    /\ panicked = "none"
    /\ start = <<>>
    /\ tried = {}
    /\ flowed = {}
    /\ last = NoStep
    /\ rejected = NoReaction
    /\ seen = NoneSeen
    /\ clean = (is_non_negative(ga) /\ is_non_negative(gb))
    /\ call = NoCall
    /\ result = NoResult

InitFlow ==
    \/ \E s \in Species, xa \in FlowAmounts, xb \in FlowAmounts,
          va \in FlowVolumes, vb \in FlowVolumes, r \in FlowRates,
          ends \in {<<0, 1>>, <<1, 0>>} :
         Joined(va, GasOf(s, xa, 1), vb, GasOf(s, xb, 0),
                ends[1], ends[2], GasOf(s, r, 0))
    \/ Joined(100, Gas(1000, 0, 0, 0), 50, gas_zero, 0, 1, Gas(1000, 0, 0, 0))

NextFlow ==
    \/ Tick
    \/ ReactionsDone
    \/ PipeStep
    \/ PipesDone

SpecFlow == InitFlow /\ [][NextFlow]_vars

\* tick() called again and again on two joined containers of positive volume
\* and non-negative amounts: a call that can be made is made, and a loop that
\* can go on goes on.
InitSettling ==
    \/ \E s \in {"o2", "h2o"}, xa \in 0 .. MaxAmount, xb \in 0 .. MaxAmount,
          va \in FlowVolumes \ {0}, vb \in FlowVolumes \ {0}, r \in FlowRates,
          ends \in {<<0, 1>>, <<1, 0>>} :
         Joined(va, GasOf(s, xa, 1), vb, GasOf(s, xb, 0),
                ends[1], ends[2], GasOf(s, r, 0))
    \/ Joined(100, Gas(1000, 0, 0, 0), 50, gas_zero, 0, 1, Gas(1000, 0, 0, 0))

SpecSettling == InitSettling /\ [][NextFlow]_vars /\ WF_vars(NextFlow)

----------------------------------------------------------------------------
(* The functions that compute a value from their arguments alone:          *)
(* gas_from_parts and Gas::pressure (through Container::pressure).  The    *)
(* state holds the call and, once it has returned, its value; the engine   *)
(* beside it is a fresh one and plays no part.                             *)
(* gas_from_parts multiplies i64 values three times in a row, so its       *)
(* arithmetic is modelled at a width of Bits bits, with both outcomes an   *)
(* overflow has: a panic where the build checks overflow, the wrapped      *)
(* value where it does not.                                                *)

\* The width of the integers of gas_from_parts (64 in the source).
Bits == 8

MinInt == -(2 ^ (Bits - 1))

MaxInt == 2 ^ (Bits - 1) - 1

\* x reduced to the two's complement range of the width.
wrapping(x) == ((x - MinInt) % (2 ^ Bits)) + MinInt

overflows(x) == x < MinInt \/ x > MaxInt

\* What a call ends in: a panic with a message, or a value.
Panics(message) == [panic |-> message, value |-> gas_zero]

Yields(value) == [panic |-> "none", value |-> value]

\* gas_from_parts rounding each species to the nearest unit.
gas_from_parts_rounded(volume, pressure, o2_parts, co2_parts, h2o_parts, divisor, checked) ==
    IF ~(volume > 0) THEN Panics("volume must be positive")
    ELSE IF ~(pressure >= 0) THEN Panics("pressure must be non-negative")
    ELSE IF ~(o2_parts >= 0) THEN Panics("o2_parts must be non-negative")
    ELSE IF ~(co2_parts >= 0) THEN Panics("co2_parts must be non-negative")
    ELSE IF ~(h2o_parts >= 0) THEN Panics("h2o_parts must be non-negative")
    ELSE IF ~(divisor > 0) THEN Panics("divisor must be positive")
    ELSE LET total == wrapping(pressure * volume)
             raw_o2 == wrapping(total * o2_parts)
             raw_co2 == wrapping(total * co2_parts)
             raw_h2o == wrapping(total * h2o_parts)
             half == TruncDiv(divisor, 2)
         IN  IF checked /\ (\/ overflows(pressure * volume)
                            \/ overflows(total * o2_parts)
                            \/ overflows(total * co2_parts)
                            \/ overflows(total * h2o_parts))
             THEN Panics("attempt to multiply with overflow")
             ELSE Yields(Gas(TruncDiv(raw_o2 + half, divisor),
                             TruncDiv(raw_co2 + half, divisor), 0,
                             TruncDiv(raw_h2o + half, divisor)))

\* gas_from_parts(volume, pressure, o2_parts, co2_parts, h2o_parts, divisor);
\* checked tells whether the build panics on arithmetic overflow.
gas_from_parts(volume, pressure, o2_parts, co2_parts, h2o_parts, divisor, checked) ==
    IF ~(volume > 0) THEN Panics("volume must be positive")
    ELSE IF ~(pressure >= 0) THEN Panics("pressure must be non-negative")
    ELSE IF ~(o2_parts >= 0) THEN Panics("o2_parts must be non-negative")
    ELSE IF ~(co2_parts >= 0) THEN Panics("co2_parts must be non-negative")
    ELSE IF ~(h2o_parts >= 0) THEN Panics("h2o_parts must be non-negative")
    ELSE IF ~(divisor > 0) THEN Panics("divisor must be positive")
    ELSE LET total == wrapping(pressure * volume)
             raw_o2 == wrapping(total * o2_parts)
             raw_co2 == wrapping(total * co2_parts)
             raw_h2o == wrapping(total * h2o_parts)
         IN  IF checked /\ (\/ overflows(pressure * volume)
                            \/ overflows(total * o2_parts)
                            \/ overflows(total * co2_parts)
                            \/ overflows(total * h2o_parts))
             THEN Panics("attempt to multiply with overflow")
             ELSE Yields(Gas(TruncDiv(raw_o2, divisor), TruncDiv(raw_co2, divisor),
                             0, TruncDiv(raw_h2o, divisor)))

\* Container::pressure computed by one division of the total amount.
container_pressure_combined(volume, gas) ==
    TruncDiv(gas.o2 + gas.co2 + gas.co + gas.h2o, volume)

\* Container::pressure of a container of this volume and gas, volume not 0.
container_pressure(volume, gas) == gas_pressure(gas, volume)

PartsVolumes == {0, 1, 3}

PartsPressures == {-1, 0, 1, 7, 50}

PartsInputs == {-1, 0, 1, 2, 3}

DivisorInputs == {0, 1, 3, 4}

PressureVolumes == {0, 1, 2, 4}

PressureAmounts == {-1, 0, 3, 5, 7}

FunctionCalls ==
    {Call("gas_from_parts", <<v, p, a, b, c, d>>) :
        v \in PartsVolumes, p \in PartsPressures, a \in PartsInputs,
        b \in PartsInputs, c \in PartsInputs, d \in DivisorInputs}
    \cup {Call("pressure", <<v, Gas(a, b, c, d)>>) :
        v \in PressureVolumes, a \in PressureAmounts, b \in PressureAmounts,
        c \in PressureAmounts, d \in PressureAmounts}

InitFunctions ==
    \E c \in FunctionCalls :
        /\ Constructed(1, Contents(gas_zero, fluid_zero, solid_zero))
        /\ call = c
        /\ result = NoResult

\* The call of gas_from_parts runs.
GasFromParts ==
    /\ call.fn = "gas_from_parts"
    /\ panicked = "none"
    /\ ~result.returned
    /\ \E checked \in BOOLEAN :
         LET a == call.args
             out == gas_from_parts(a[1], a[2], a[3], a[4], a[5], a[6], checked)
         IN  /\ panicked' = out.panic
             /\ result' = IF out.panic = "none" THEN Returned(out.value) ELSE result
    /\ UNCHANGED <<engine, pc, idx, history, rejected, seen, clean, call>>

\* The call of Container::pressure runs.
ContainerPressure ==
    /\ call.fn = "pressure"
    /\ panicked = "none"
    /\ ~result.returned
    /\ LET volume == call.args[1]
           gas == call.args[2]
       IN  IF volume = 0
           THEN /\ panicked' = "attempt to divide by zero"
                /\ result' = result
           ELSE /\ panicked' = "none"
                /\ result' = Returned(container_pressure(volume, gas))
    /\ UNCHANGED <<engine, pc, idx, history, rejected, seen, clean, call>>

NextFunctions ==
    \/ GasFromParts
    \/ ContainerPressure

SpecFunctions == InitFunctions /\ [][NextFunctions]_vars

----------------------------------------------------------------------------

(* flow_amount at the width of the amount type.  Amounts, volumes and       *)
(* max_flow are Bits wide; the cross-multiplication runs in an integer type *)
(* of twice the width, and the result is narrowed back by a cast.           *)

WideMin == -(2 ^ (2 * Bits - 1))

WideMax == 2 ^ (2 * Bits - 1) - 1

\* x reduced to the two's complement range of twice the width.
wide_wrapping(x) == ((x - WideMin) % (2 ^ (2 * Bits))) + WideMin

wide_overflows(x) == x < WideMin \/ x > WideMax

\* What a call of flow_amount ends in: a panic, or the value returned together
\* with the numerator and the denominator it computed.
FlowPanics(message) == [panic |-> message, value |-> 0, numerator |-> 0, denom |-> 0]

FlowYields(value, numerator, denom) ==
    [panic |-> "none", value |-> value, numerator |-> numerator, denom |-> denom]

\* flow_amount without the widening: every operation in the amount type.
flow_amount_narrow(amount_a, volume_a, amount_b, volume_b, max_flow, checked) ==
    LET va == volume_a
        vb == volume_b
        left == wrapping(amount_a * vb)
        right == wrapping(amount_b * va)
        numerator == wrapping(left - right)
        denom == wrapping(va + vb)
    IN  IF checked /\ (overflows(amount_a * vb) \/ overflows(amount_b * va))
        THEN FlowPanics("attempt to multiply with overflow")
        ELSE IF checked /\ overflows(left - right)
        THEN FlowPanics("attempt to subtract with overflow")
        ELSE IF checked /\ overflows(va + vb)
        THEN FlowPanics("attempt to add with overflow")
        ELSE IF denom <= 0
        THEN FlowYields(0, numerator, denom)
        ELSE LET equalize == TruncDiv(numerator, denom)
                 hi == Min(amount_a, max_flow)
                 lo == wrapping(-Min(amount_b, max_flow))
                 clamped == IF equalize > hi THEN hi
                            ELSE IF equalize < lo THEN lo
                            ELSE equalize
             IN  IF checked /\ overflows(-Min(amount_b, max_flow))
                 THEN FlowPanics("attempt to negate with overflow")
                 ELSE FlowYields(clamped, numerator, denom)

\* flow_amount(amount_a, volume_a, amount_b, volume_b, max_flow) on arguments
\* of the amount type; checked tells whether the build panics on arithmetic
\* overflow.  `as i128` keeps the value, `as i64` keeps the low bits.
flow_amount_widened(amount_a, volume_a, amount_b, volume_b, max_flow, checked) ==
    LET va == volume_a
        vb == volume_b
        left == wide_wrapping(amount_a * vb)
        right == wide_wrapping(amount_b * va)
        numerator == wide_wrapping(left - right)
        denom == wide_wrapping(va + vb)
    IN  IF checked /\ (wide_overflows(amount_a * vb) \/ wide_overflows(amount_b * va))
        THEN FlowPanics("attempt to multiply with overflow")
        ELSE IF checked /\ wide_overflows(left - right)
        THEN FlowPanics("attempt to subtract with overflow")
        ELSE IF checked /\ wide_overflows(va + vb)
        THEN FlowPanics("attempt to add with overflow")
        ELSE IF denom <= 0
        THEN FlowYields(0, numerator, denom)
        ELSE LET equalize == TruncDiv(numerator, denom)
                 hi == Min(amount_a, max_flow)
                 lo == wide_wrapping(-Min(amount_b, max_flow))
                 clamped == IF equalize > hi THEN hi
                            ELSE IF equalize < lo THEN lo
                            ELSE equalize
             IN  IF checked /\ wide_overflows(-Min(amount_b, max_flow))
                 THEN FlowPanics("attempt to negate with overflow")
                 ELSE FlowYields(wrapping(clamped), numerator, denom)

\* Arguments at and next to the ends of the amount type, and around zero.
WidthInputs == {MinInt, MinInt + 1, -1, 0, 1, 2, MaxInt - 1, MaxInt}

InitWidened ==
    \E a \in WidthInputs, va \in WidthInputs, b \in WidthInputs,
       vb \in WidthInputs, r \in WidthInputs :
        /\ Constructed(1, Contents(gas_zero, fluid_zero, solid_zero))
        /\ call = Call("flow_amount", <<a, va, b, vb, r>>)
        /\ result = NoResult

\* The call of flow_amount runs.
FlowAmount ==
    /\ call.fn = "flow_amount"
    /\ panicked = "none"
    /\ ~result.returned
    /\ \E checked \in BOOLEAN :
         LET a == call.args
             out == flow_amount_widened(a[1], a[2], a[3], a[4], a[5], checked)
         IN  /\ panicked' = out.panic
             /\ result' = IF out.panic = "none" THEN Returned(out) ELSE result
    /\ UNCHANGED <<engine, pc, idx, history, rejected, seen, clean, call>>

NextWidened == FlowAmount

SpecWidened == InitWidened /\ [][NextWidened]_vars

----------------------------------------------------------------------------

(* The convenience builders: each asserts its rate and calls add_reaction   *)
(* with the deltas of one chemistry.  The state keeps the builder call just *)
(* made.                                                                    *)

\* The largest rate a builder is called with.
MaxPerTick == 4

PerTickInputs == (-1) .. MaxPerTick

\* A builder whose assertion on the rate failed: nothing but the panic.
builder_panic(message) ==
    /\ panicked' = message
    /\ UNCHANGED <<engine, pc, idx, history, rejected, seen, clean, result>>

\* add_human(engine, container, o2_per_tick)
add_human(container, o2_per_tick) ==
    IF ~(o2_per_tick >= 0)
    THEN builder_panic("o2_per_tick must be non-negative")
    ELSE add_reaction(container,
                      Gas(-o2_per_tick, o2_per_tick, 0, o2_per_tick),
                      fluid_zero,
                      Solid(-o2_per_tick))

\* add_photosynthesis taking the water from the gas instead of the fluid.
add_photosynthesis_from_vapour(container, co2_per_tick) ==
    IF ~(co2_per_tick >= 0)
    THEN builder_panic("co2_per_tick must be non-negative")
    ELSE add_reaction(container,
                      Gas(co2_per_tick, -co2_per_tick, 0, -co2_per_tick),
                      fluid_zero,
                      Solid(co2_per_tick))

\* add_photosynthesis(engine, container, co2_per_tick)
add_photosynthesis(container, co2_per_tick) ==
    IF ~(co2_per_tick >= 0)
    THEN builder_panic("co2_per_tick must be non-negative")
    ELSE add_reaction(container,
                      Gas(co2_per_tick, -co2_per_tick, 0, 0),
                      Fluid(-co2_per_tick),
                      Solid(co2_per_tick))

\* add_moxie(engine, container, co2_per_tick); % is the remainder of the
\* truncating division, and the rate is not negative where it is taken.
add_moxie(container, co2_per_tick) ==
    IF ~(co2_per_tick >= 0)
    THEN builder_panic("co2_per_tick must be non-negative")
    ELSE IF ~(co2_per_tick % 2 = 0)
    THEN builder_panic("co2_per_tick must be even for 2 CO2 -> 2 CO + O2")
    ELSE LET o2_per_tick == TruncDiv(co2_per_tick, 2)
         IN  add_reaction(container,
                          Gas(o2_per_tick, -co2_per_tick, co2_per_tick, 0),
                          fluid_zero,
                          solid_zero)

AddHuman ==
    /\ Callable
    /\ Calls < MaxCalls
    /\ \E container \in IdInputs, n \in PerTickInputs :
         /\ add_human(container, n)
         /\ call' = Call("add_human", <<container, n>>)

AddPhotosynthesis ==
    /\ Callable
    /\ Calls < MaxCalls
    /\ \E container \in IdInputs, n \in PerTickInputs :
         /\ add_photosynthesis(container, n)
         /\ call' = Call("add_photosynthesis", <<container, n>>)

AddMoxie ==
    /\ Callable
    /\ Calls < MaxCalls
    /\ \E container \in IdInputs, n \in PerTickInputs :
         /\ add_moxie(container, n)
         /\ call' = Call("add_moxie", <<container, n>>)

NextBuilders ==
    \/ AddHuman
    \/ AddPhotosynthesis
    \/ AddMoxie

\* The builders are called on a fresh engine of one empty container.
InitBuilders == New(1, Contents(gas_zero, fluid_zero, solid_zero))

SpecBuilders == InitBuilders /\ [][NextBuilders]_vars

----------------------------------------------------------------------------

(* The respiration scenario: a root of volume 1000 and a child of volume    *)
(* 100 holding 2000 O2, 8000 CO2 and 500 biomass, add_human(child, 3), no   *)
(* pipe; then tick() after tick().                                          *)

\* The reaction add_human(container, o2_per_tick) registers.
human_reaction(container, o2_per_tick) ==
    Reaction(container, Gas(-o2_per_tick, o2_per_tick, 0, o2_per_tick),
             fluid_zero, Solid(-o2_per_tick))

InitRespiration ==
    /\ containers =
         [insert_container(
              insert_container(<<>>, 1000, gas_zero, fluid_zero, solid_zero),
              100, Gas(2000, 8000, 0, 0), fluid_zero, Solid(500))
            EXCEPT ![1].children = <<1>>]
    /\ pipes = <<>>
    /\ reactions = <<human_reaction(1, 3)>>
    /\ root = 0
    /\ pc = "idle"
    /\ idx = 0
    /\ panicked = "none"
    /\ start = <<>>
    /\ tried = {}
    /\ flowed = {}
    /\ last = NoStep
    /\ rejected = NoReaction
    /\ seen = NoneSeen
    /\ clean = TRUE
    /\ call = NoCall
    /\ result = Returned(1)

NextRespiration ==
    \/ Tick
    \/ ReactionStep
    \/ ReactionsDone
    \/ PipesDone

SpecRespiration == InitRespiration /\ [][NextRespiration]_vars

\* The engines of Spec together with the respiration scenario.
InitReactions == Init \/ InitRespiration

\* The engine is one of those Spec builds, not the scenario.
Growing == containers[1].volume \in VolumeInputs

\* The scenario is complete as it starts and is only ticked.
NextReactions ==
    \/ Growing /\ AddContainer
    \/ Growing /\ AddPipe
    \/ Growing /\ AddReaction
    \/ Tick
    \/ ReactionStep
    \/ ReactionsDone
    \/ PipeStep
    \/ PipesDone

SpecReactions == InitReactions /\ [][NextReactions]_vars

----------------------------------------------------------------------------

(* The container tree: add_container after add_container on a fresh engine, *)
(* with parents that are ids of the engine, the id about to be issued, or    *)
(* ids of no container.  The state keeps the parents passed so far.          *)

\* The most containers a tree is grown to.
MaxNodes == 5

ParentInputs == 0 .. MaxNodes

TreeVolumes == {1, 2}

InitTree ==
    /\ Constructed(1, Contents(gas_zero, fluid_zero, solid_zero))
    /\ call = Call("add_container", <<>>)
    /\ result = NoResult

AddNode ==
    /\ Callable
    /\ Len(containers) < MaxNodes
    /\ \E parent \in ParentInputs, volume \in TreeVolumes :
         /\ add_container(parent, volume, Contents(gas_zero, fluid_zero, solid_zero))
         /\ call' = Call("add_container", Append(call.args, parent))

NextTree == AddNode

SpecTree == InitTree /\ [][NextTree]_vars

----------------------------------------------------------------------------

(* Networks: a root with three children, a reaction list of at most one     *)
(* reaction and up to MaxPipes pipes between any two of the four            *)
(* containers, as Engine::new, three add_container calls, add_human or      *)
(* add_moxie and the add_pipe calls leave it; then tick() after tick().     *)

\* The most pipes of a network.
MaxPipes == 2

NetworkIds == 0 .. 3

\* The table of a root and three children with these volumes, gases and
\* solids (sequences indexed by id + 1); no fluid.
network_table(volumes, gases, solids) ==
    [insert_container(
       insert_container(
         insert_container(
           insert_container(<<>>, volumes[1], gases[1], fluid_zero, Solid(solids[1])),
           volumes[2], gases[2], fluid_zero, Solid(solids[2])),
         volumes[3], gases[3], fluid_zero, Solid(solids[3])),
       volumes[4], gases[4], fluid_zero, Solid(solids[4]))
     EXCEPT ![1].children = <<1, 2, 3>>]

NetworkTables ==
    { network_table(<<1, 2, 1, 3>>,
                    <<Gas(6, 5, 0, 0), Gas(0, 0, 0, 0), Gas(3, 0, 0, 2), Gas(1, 0, 0, 0)>>,
                    <<1, 0, 0, 0>>),
      network_table(<<2, 1, 1, 1>>,
                    <<Gas(0, 0, 0, 0), Gas(5, 1, 0, 0), Gas(5, 7, 0, 0), Gas(0, 0, 2, 0)>>,
                    <<2, 0, 0, 0>>) }

NetworkRates == {Gas(1, 1, 1, 1), Gas(4, 4, 4, 0)}

\* The pipes add_pipe accepts between containers of the network.
NetworkPipes ==
    {Pipe(ends[1], ends[2], r) :
        ends \in {e \in NetworkIds \X NetworkIds : e[1] # e[2]}, r \in NetworkRates}

\* The lists of n pipes.
RECURSIVE PipeLists(_)
PipeLists(n) ==
    IF n = 0
    THEN {<<>>}
    ELSE {Append(ps, p) : ps \in PipeLists(n - 1), p \in NetworkPipes}

\* Respiration in the root, which uses up its biomass, and CO2 splitting in
\* the first child, which depends on the CO2 the pipes bring.
NetworkReactions ==
    {<<>>,
     <<human_reaction(0, 1)>>,
     <<Reaction(1, Gas(1, -2, 2, 0), fluid_zero, solid_zero)>>}

InitNetwork ==
    \E cs \in NetworkTables, n \in 1..MaxPipes, rs \in NetworkReactions :
      \E ps \in PipeLists(n) :
        /\ containers = cs
        /\ pipes = ps
        /\ reactions = rs
        /\ root = 0
        /\ pc = "idle"
        /\ idx = 0
        /\ panicked = "none"
        /\ start = <<>>
        /\ tried = {}
        /\ flowed = {}
        /\ last = NoStep
        /\ rejected = NoReaction
        /\ seen = NoneSeen
        /\ clean = TRUE
        /\ call = NoCall
        /\ result = Returned(3)

NextNetwork ==
    \/ Tick
    \/ ReactionStep
    \/ ReactionsDone
    \/ PipeStep
    \/ PipesDone

SpecNetwork == InitNetwork /\ [][NextNetwork]_vars

----------------------------------------------------------------------------

(* Properties.  Their helpers restate the quantities in the words of the    *)
(* specification, apart from the operators of the model above.             *)

Fields(c) ==
    <<c.gas.o2, c.gas.co2, c.gas.co, c.gas.h2o, c.fluid.h2o, c.solid.ch2o>>

DeltaFields(r) ==
    <<r.gas_delta.o2, r.gas_delta.co2, r.gas_delta.co, r.gas_delta.h2o,
      r.fluid_delta.h2o, r.solid_delta.ch2o>>

\* Some field of state + delta would be negative.
Infeasible(c, r) == \E k \in 1..6 : Fields(c)[k] + DeltaFields(r)[k] < 0

AllNonNegative(c) == \A k \in 1..6 : Fields(c)[k] >= 0

AllVolumesPositive == \A i \in 1..Len(containers) : containers[i].volume > 0

OxygenAtoms(c) ==
    2 * c.gas.o2 + 2 * c.gas.co2 + c.gas.co + c.gas.h2o + c.fluid.h2o + c.solid.ch2o

CarbonAtoms(c) == c.gas.co2 + c.gas.co + c.solid.ch2o

HydrogenAtoms(c) == 2 * (c.gas.h2o + c.fluid.h2o + c.solid.ch2o)

Balanced(r) ==
    /\ r.gas_delta.co2 + r.gas_delta.co + r.solid_delta.ch2o = 0
    /\ 2 * (r.gas_delta.h2o + r.fluid_delta.h2o + r.solid_delta.ch2o) = 0
    /\ 2 * r.gas_delta.o2 + 2 * r.gas_delta.co2 + r.gas_delta.co
         + r.gas_delta.h2o + r.fluid_delta.h2o + r.solid_delta.ch2o = 0

\* The container c after reaction r is tried on it once.
Tried(c, r) ==
    IF Infeasible(c, r)
    THEN c
    ELSE [c EXCEPT !.gas = Gas(@.o2 + r.gas_delta.o2, @.co2 + r.gas_delta.co2,
                               @.co + r.gas_delta.co, @.h2o + r.gas_delta.h2o),
                   !.fluid = Fluid(@.h2o + r.fluid_delta.h2o),
                   !.solid = Solid(@.ch2o + r.solid_delta.ch2o)]

\* The table cs after reactions 1..k were tried one after the other, each on
\* the table the one before left.
RECURSIVE Sequentially(_, _)
Sequentially(cs, k) ==
    IF k = 0
    THEN cs
    ELSE LET prev == Sequentially(cs, k - 1)
             r == reactions[k]
         IN  [prev EXCEPT ![r.container + 1] = Tried(@, r)]

\* A pass of the reaction loop has just run (and did not panic).
ReactionTried == last.op = "reaction" /\ panicked = "none"

TriedReaction == reaction_at(last.index)

TargetBefore == last.before[TriedReaction.container + 1]

TargetAfter == containers[TriedReaction.container + 1]

\* C1: non-negativity. In an engine whose containers were all created with a
\* positive volume and with amounts >= 0, every gas, fluid and solid amount of
\* every container is >= 0 whenever no tick() is running, so after every tick().
C1_NonNegativity ==
    (pc = "idle" /\ clean /\ AllVolumesPositive)
        => \A i \in 1..Len(containers) : AllNonNegative(containers[i])

\* A tick has run a reaction (CO appears only by CO2 splitting) and a pipe has
\* carried its product to the other container.
C1_Witness ==
    /\ pc = "idle" /\ clean /\ AllVolumesPositive
    /\ Len(containers) = 2
    /\ containers[1].gas.co > 0
    /\ containers[2].gas.co > 0

\* C2: skip-is-atomic. When a reaction is tried on a container in which some
\* field of state + delta would be negative, the pass leaves the container's
\* gas, fluid and solid as they were.
C2_SkipIsAtomic ==
    (ReactionTried /\ Infeasible(TargetBefore, TriedReaction))
        => /\ TargetAfter.gas = TargetBefore.gas
           /\ TargetAfter.fluid = TargetBefore.fluid
           /\ TargetAfter.solid = TargetBefore.solid

\* A reaction was skipped for want of biomass alone: its gas delta is not zero
\* and the gas check on its own would have passed.
C2_Witness ==
    /\ ReactionTried
    /\ TriedReaction.gas_delta # gas_zero
    /\ \A k \in 1..5 : Fields(TargetBefore)[k] + DeltaFields(TriedReaction)[k] >= 0
    /\ Fields(TargetBefore)[6] + DeltaFields(TriedReaction)[6] < 0

\* C3: add_reaction accepts a reaction, appending it as the last element of the
\* list, exactly when its deltas balance carbon, hydrogen and oxygen; otherwise
\* the call fails as unbalanced and leaves the list as it was; so every reaction
\* of the list is atom-balanced.
C3_AddReactionChecksBalance ==
    /\ [](\A k \in 1..Len(reactions) : Balanced(reactions[k]))
    /\ [](panicked = "reaction is not atom-balanced" => ~Balanced(rejected))
    /\ [][ /\ (reactions' # reactions)
               => /\ panicked' = "none"
                  /\ Len(reactions') = Len(reactions) + 1
                  /\ SubSeq(reactions', 1, Len(reactions)) = reactions
           /\ (panicked' = "reaction is not atom-balanced")
               => reactions' = reactions ]_vars

\* After a reaction was accepted, a call with deltas that miss the balance of
\* one kind of atom only was refused.
C3_Witness ==
    /\ panicked = "reaction is not atom-balanced"
    /\ Len(reactions) >= 1
    /\ reactions[Len(reactions)].gas_delta # gas_zero
    /\ rejected.gas_delta.co2 + rejected.gas_delta.co + rejected.solid_delta.ch2o = 0
    /\ rejected.gas_delta.h2o + rejected.fluid_delta.h2o + rejected.solid_delta.ch2o = 0

\* C4: conservation under reaction application. A reaction that is applied
\* leaves the oxygen, carbon and hydrogen atom counts of its container as they
\* were.
C4_ReactionConservesAtoms ==
    (ReactionTried /\ last.applied)
        => /\ OxygenAtoms(TargetAfter) = OxygenAtoms(TargetBefore)
           /\ CarbonAtoms(TargetAfter) = CarbonAtoms(TargetBefore)
           /\ HydrogenAtoms(TargetAfter) = HydrogenAtoms(TargetBefore)

\* A reaction was applied and changed the gas, the fluid and the solid of its
\* container.
C4_Witness ==
    /\ ReactionTried /\ last.applied
    /\ TargetAfter.gas # TargetBefore.gas
    /\ TargetAfter.fluid # TargetBefore.fluid
    /\ TargetAfter.solid # TargetBefore.solid

\* A pass of the pipe loop has just run (and did not panic).
PipeApplied == last.op = "pipe" /\ last.applied /\ panicked = "none"

AppliedPipe == pipes[last.index]

\* The endpoints of the pipe just applied, before and after the pass.
ABefore == last.before[AppliedPipe.a + 1]

BBefore == last.before[AppliedPipe.b + 1]

AAfter == containers[AppliedPipe.a + 1]

BAfter == containers[AppliedPipe.b + 1]

Abs(x) == IF x >= 0 THEN x ELSE -x

\* Non-negative amounts of species s and positive volumes before the flow.
FlowGiven(s) ==
    /\ Of(ABefore.gas, s) >= 0 /\ Of(BBefore.gas, s) >= 0
    /\ ABefore.volume > 0 /\ BBefore.volume > 0

\* C5: pipe flow bounds. For a pipe applied to endpoints with non-negative
\* amounts and positive volumes, what leaves A and what arrives in B of each
\* species is at most the flow rate of that species in absolute value, and
\* neither endpoint's amount of it is negative afterwards.
C5_PipeFlowBounds ==
    PipeApplied =>
        \A s \in Species :
            FlowGiven(s) =>
                /\ Abs(Of(ABefore.gas, s) - Of(AAfter.gas, s))
                       <= Of(AppliedPipe.flow_rate, s)
                /\ Abs(Of(BAfter.gas, s) - Of(BBefore.gas, s))
                       <= Of(AppliedPipe.flow_rate, s)
                /\ Of(AAfter.gas, s) >= 0
                /\ Of(BAfter.gas, s) >= 0

\* A flow was cut to the flow rate: exactly the rate moved, and the partial
\* pressures are still more than one equalizing step apart.
C5_Witness ==
    /\ PipeApplied
    /\ \E s \in Species :
          /\ FlowGiven(s)
          /\ Of(AppliedPipe.flow_rate, s) > 0
          /\ Of(ABefore.gas, s) - Of(AAfter.gas, s) = Of(AppliedPipe.flow_rate, s)
          /\ Of(AAfter.gas, s) * BAfter.volume - Of(BAfter.gas, s) * AAfter.volume
                 >= 2 * (AAfter.volume + BAfter.volume)

\* The quotient n / d truncated toward zero, for d > 0.
Quotient(n, d) == IF n >= 0 THEN n \div d ELSE -((-n) \div d)

\* The one-step equalizing amount of species s for the pipe just applied.
Equalizing(s) ==
    Quotient(Of(ABefore.gas, s) * BBefore.volume - Of(BBefore.gas, s) * ABefore.volume,
             ABefore.volume + BBefore.volume)

\* C6: equilibrium convergence in one tick. With two containers of positive
\* volume and non-negative amounts, no reaction and one pipe whose flow rate
\* for a species is at least the magnitude of the one-step equalizing amount,
\* the tick leaves the integer partial pressures of that species at most 1
\* apart; volumes 100 and 50 with O2 1000 and 0 and rate 1000 end at 667 and 333.
C6_EqualizesInOneTick ==
    (PipeApplied /\ Len(containers) = 2 /\ Len(pipes) = 1 /\ Len(reactions) = 0)
        => /\ \A s \in Species :
                (FlowGiven(s) /\ Of(AppliedPipe.flow_rate, s) >= Abs(Equalizing(s)))
                    => Abs((Of(AAfter.gas, s) \div AAfter.volume)
                           - (Of(BAfter.gas, s) \div BAfter.volume)) <= 1
           /\ ( /\ ABefore.volume = 100 /\ BBefore.volume = 50
                /\ ABefore.gas.o2 = 1000 /\ BBefore.gas.o2 = 0
                /\ AppliedPipe.flow_rate.o2 = 1000 )
                  => (AAfter.gas.o2 = 667 /\ BAfter.gas.o2 = 333)

\* The tick of the example has run: 333 of the 1000 O2 moved from the volume of
\* 100 to the volume of 50.
C6_Witness ==
    /\ PipeApplied /\ Len(containers) = 2 /\ Len(pipes) = 1 /\ Len(reactions) = 0
    /\ ABefore.volume = 100 /\ BBefore.volume = 50
    /\ ABefore.gas.o2 = 1000 /\ BBefore.gas.o2 = 0
    /\ AppliedPipe.flow_rate.o2 = 1000
    /\ AAfter.gas.o2 = 667 /\ BAfter.gas.o2 = 333

\* C7: phase order within a tick. No reaction is tried once a pipe has flowed in
\* the same tick, a pipe flows only after every reaction has been tried, and
\* the first pipe reads the table the reactions of this tick left.
C7_ReactionsBeforePipes ==
    /\ (flowed # {}) => (tried = 1..Len(reactions))
    /\ (last.op = "reaction") => (flowed = {})
    /\ (last.op = "pipe" /\ last.index = 1)
           => last.before = Sequentially(start, Len(reactions))

\* A pipe has moved gas out of a table that the reactions of the same tick had
\* changed.
C7_Witness ==
    /\ last.op = "pipe" /\ last.applied
    /\ last.flow # gas_zero
    /\ Len(reactions) >= 1
    /\ last.before # start

\* C8: reaction order. add_reaction appends, so the list is in the order of
\* acceptance; within a tick the reactions are tried in list order, and after k
\* passes the table is the one obtained by trying reactions 1..k one after the
\* other, each on the table its predecessor left.
C8_ReactionOrder ==
    /\ []((pc = "reactions" /\ panicked = "none")
            => /\ tried = 1..(idx - 1)
               /\ containers = Sequentially(start, idx - 1))
    /\ [][(reactions' # reactions)
            => /\ Len(reactions') = Len(reactions) + 1
               /\ SubSeq(reactions', 1, Len(reactions)) = reactions]_vars

\* A later reaction was applied that could not have been applied on the table
\* the tick started from: an earlier reaction of the same tick enabled it.
C8_Witness ==
    /\ ReactionTried /\ last.applied
    /\ last.index >= 2
    /\ Infeasible(start[TriedReaction.container + 1], TriedReaction)

\* C9: tick() never fails. No tick() ends in a panic.
C9_TickNeverFails == ~(pc # "idle" /\ panicked # "none")

\* C10: positive volume is enforced at creation. Every container of every
\* reachable engine has a volume > 0.
C10_VolumesPositive == AllVolumesPositive

\* The panics of add_pipe: assert!(a != b) and the assertion of Pipe::new.
PipePanics == {"pipe endpoints must be different", "flow rates must be non-negative"}

\* C11: add_pipe checks its arguments. Every pipe of the list has two distinct
\* endpoints and four non-negative flow rates (so no call with a == b or a
\* negative rate ever registered one), a call that fails leaves the list as it
\* was, and a call that changes the list appends one pipe and does not fail.
C11_AddPipeChecksArguments ==
    /\ [](\A k \in 1..Len(pipes) :
             /\ pipes[k].a # pipes[k].b
             /\ pipes[k].flow_rate.o2 >= 0 /\ pipes[k].flow_rate.co2 >= 0
             /\ pipes[k].flow_rate.co >= 0 /\ pipes[k].flow_rate.h2o >= 0)
    /\ [][ /\ (panicked' \in PipePanics) => (pipes' = pipes)
           /\ (pipes' # pipes)
               => /\ panicked' = "none"
                  /\ Len(pipes') = Len(pipes) + 1
                  /\ SubSeq(pipes', 1, Len(pipes)) = pipes ]_vars

\* After a pipe was registered, a call with a negative flow rate was refused.
C11_Witness ==
    /\ panicked = "flow rates must be non-negative"
    /\ Len(pipes) >= 1

\* C12: registration validates container ids. Every reaction and every pipe of
\* the lists names containers of this engine's table only: add_reaction and
\* add_pipe registered nothing for an id that is out of range.
C12_RegisteredIdsExist ==
    /\ \A k \in 1..Len(reactions) : reactions[k].container < Len(containers)
    /\ \A k \in 1..Len(pipes) :
          pipes[k].a < Len(containers) /\ pipes[k].b < Len(containers)

\* A call of gas_from_parts has returned a gas.
PartsReturned == call.fn = "gas_from_parts" /\ result.returned

PartsSum == result.value.o2 + result.value.co2 + result.value.co + result.value.h2o

\* C13 as the spec words it: for every input gas_from_parts accepts, the four
\* amounts of the gas it returns add up to at most pressure * volume.
C13_PartsSumBounded ==
    PartsReturned => PartsSum <= call.args[2] * call.args[1]

\* C13, with the parts no more than the divisor: for every input
\* gas_from_parts accepts whose o2_parts + co2_parts + h2o_parts is at most the
\* divisor, the four amounts of the gas it returns add up to at most
\* pressure * volume.
C13_FractionsSumBounded ==
    (PartsReturned /\ call.args[3] + call.args[4] + call.args[5] <= call.args[6])
        => PartsSum <= call.args[2] * call.args[1]

\* Three equal parts of a total that 3 does not divide: each species is floored
\* and the sum falls short of the total.
C13_Witness ==
    /\ PartsReturned
    /\ call.args[3] + call.args[4] + call.args[5] = call.args[6]
    /\ result.value.o2 > 0 /\ result.value.co2 > 0 /\ result.value.h2o > 0
    /\ PartsSum < call.args[2] * call.args[1]
    /\ ~overflows(call.args[2] * call.args[1] * call.args[6])

\* A call of Container::pressure has returned.
PressureReturned == call.fn = "pressure" /\ result.returned

PressureVolume == call.args[1]

PressureGas == call.args[2]

\* The pressure one division of the total amount by the volume gives.
CombinedPressure ==
    (PressureGas.o2 + PressureGas.co2 + PressureGas.co + PressureGas.h2o)
        \div PressureVolume

\* C14: container pressure. The pressure of a container is the sum of the four
\* quotients amount / volume, each truncated toward zero, and for amounts >= 0
\* and a volume > 0 it is below the quotient of the total amount by the volume
\* by 0, 1, 2 or 3.
C14_PressureUnderReports ==
    PressureReturned =>
        /\ result.value = Quotient(PressureGas.o2, PressureVolume)
                          + Quotient(PressureGas.co2, PressureVolume)
                          + Quotient(PressureGas.co, PressureVolume)
                          + Quotient(PressureGas.h2o, PressureVolume)
        /\ (is_non_negative(PressureGas) /\ PressureVolume > 0)
               => /\ CombinedPressure - result.value >= 0
                  /\ CombinedPressure - result.value <= 3

\* Four species of 3 in a volume of 4: every quotient is 0 and the combined
\* division gives 3.
C14_Witness ==
    /\ PressureReturned
    /\ is_non_negative(PressureGas) /\ PressureVolume > 0
    /\ CombinedPressure - result.value = 3

ZeroDeltas(r) ==
    /\ r.gas_delta.o2 = 0 /\ r.gas_delta.co2 = 0 /\ r.gas_delta.co = 0
    /\ r.gas_delta.h2o = 0 /\ r.fluid_delta.h2o = 0 /\ r.solid_delta.ch2o = 0

\* An engine with no pipe whose reactions all have zero deltas.
OnlyZeroReactions ==
    /\ Len(pipes) = 0
    /\ \A k \in 1..Len(reactions) : ZeroDeltas(reactions[k])

\* C15: balanced zero reaction. add_reaction never rejects a reaction whose
\* deltas are all zero, and in an engine with no pipe whose reactions are all
\* zero reactions no step of any tick() changes the container table, which at
\* every point of a tick is the table the tick started from.
C15_ZeroReactionIsNoOp ==
    /\ [](panicked = "reaction is not atom-balanced" => ~ZeroDeltas(rejected))
    /\ []((OnlyZeroReactions /\ pc # "idle") => containers = start)
    /\ [][(OnlyZeroReactions /\ (pc # "idle" \/ pc' # "idle"))
              => containers' = containers]_vars

\* The second of two zero reactions was tried on a container that holds gas,
\* fluid and solid.
C15_Witness ==
    /\ OnlyZeroReactions
    /\ ReactionTried /\ last.applied
    /\ last.index = 2
    /\ TargetAfter.gas.o2 > 0 /\ TargetAfter.fluid.h2o > 0 /\ TargetAfter.solid.ch2o > 0

\* The builder call just made: its container and its rate.
BuiltIn == call'.args[1]

BuiltRate == call'.args[2]

\* The call just made registered exactly the reaction r.
Registers(r) == reactions' = Append(reactions, r) /\ panicked' = "none"

\* The call just made failed on its rate and registered nothing.
RefusesRate ==
    /\ reactions' = reactions
    /\ panicked' \notin {"none", "reaction is not atom-balanced"}

\* C18: the convenience builders. For n >= 0 add_human(n) registers exactly the
\* reaction {o2 -n, co2 +n, h2o +n; ch2o -n} and add_photosynthesis(n) exactly
\* {o2 +n, co2 -n; fluid h2o -n; ch2o +n}; for even n >= 0 add_moxie(n)
\* registers exactly {o2 +n/2, co2 -n, co +n}; no call is rejected as
\* unbalanced; a negative rate, or an odd one for add_moxie, registers nothing
\* and fails.
C18_BuildersRegisterBalanced ==
    /\ [](panicked # "reaction is not atom-balanced")
    /\ [][ /\ (call'.fn = "add_human")
               => IF BuiltRate >= 0
                  THEN Registers([container |-> BuiltIn,
                                  gas_delta |-> [o2 |-> -BuiltRate, co2 |-> BuiltRate,
                                                 co |-> 0, h2o |-> BuiltRate],
                                  fluid_delta |-> [h2o |-> 0],
                                  solid_delta |-> [ch2o |-> -BuiltRate]])
                  ELSE RefusesRate
           /\ (call'.fn = "add_photosynthesis")
               => IF BuiltRate >= 0
                  THEN Registers([container |-> BuiltIn,
                                  gas_delta |-> [o2 |-> BuiltRate, co2 |-> -BuiltRate,
                                                 co |-> 0, h2o |-> 0],
                                  fluid_delta |-> [h2o |-> -BuiltRate],
                                  solid_delta |-> [ch2o |-> BuiltRate]])
                  ELSE RefusesRate
           /\ (call'.fn = "add_moxie")
               => IF BuiltRate >= 0 /\ BuiltRate % 2 = 0
                  THEN Registers([container |-> BuiltIn,
                                  gas_delta |-> [o2 |-> BuiltRate \div 2,
                                                 co2 |-> -BuiltRate,
                                                 co |-> BuiltRate, h2o |-> 0],
                                  fluid_delta |-> [h2o |-> 0],
                                  solid_delta |-> [ch2o |-> 0]])
                  ELSE RefusesRate ]_vars

\* After a respiration and a photosynthesis reaction were registered, add_moxie
\* refused an odd rate.
C18_Witness ==
    /\ call.fn = "add_moxie" /\ call.args[2] = 3
    /\ panicked = "co2_per_tick must be even for 2 CO2 -> 2 CO + O2"
    /\ Len(reactions) = 2
    /\ reactions[1].solid_delta.ch2o < 0
    /\ reactions[2].fluid_delta.h2o < 0

\* The child of the respiration scenario, and the biomass it has used up.
Child == containers[2]

Used == 500 - Child.solid.ch2o

\* C16: resource exhaustion halts a reaction. In the respiration scenario the
\* child has turned 3 O2 and 3 biomass into 3 CO2 and 3 H2O once per tick so
\* far; the reaction is applied on every tick that finds biomass >= 3 and
\* skipped on a tick that does not, which first happens on tick 167, after 166
\* applications (biomass 2); and once biomass < 3 no step changes any container
\* again, so every later tick skips it too.
C16_ExhaustionHalts ==
    /\ [](/\ Used % 3 = 0 /\ Used >= 0 /\ Used <= 498
          /\ Child.gas.o2 = 2000 - Used /\ Child.gas.co2 = 8000 + Used
          /\ Child.gas.co = 0 /\ Child.gas.h2o = Used
          /\ Child.fluid.h2o = 0)
    /\ [](ReactionTried =>
            IF TargetBefore.solid.ch2o >= 3
            THEN /\ TargetAfter.solid.ch2o = TargetBefore.solid.ch2o - 3
                 /\ TargetAfter.gas.o2 = TargetBefore.gas.o2 - 3
            ELSE /\ TargetAfter = TargetBefore
                 /\ Used = 498)
    /\ [][(Child.solid.ch2o < 3) => (containers' = containers)]_vars

\* The tick that finds 2 biomass left has skipped the reaction.
C16_Witness ==
    /\ ReactionTried
    /\ TargetAfter = TargetBefore
    /\ Child.solid.ch2o = 2
    /\ Child.gas.o2 = 1502 /\ Child.gas.co2 = 8498 /\ Child.gas.h2o = 498

\* The parent passed to the add_container call just made; the table had
\* Len(containers) entries when it was made.
NodeParent == call'.args[Len(call'.args)]

\* Every add_container call so far was given the id of a container that
\* existed: the k-th call found k containers.
ValidParents == \A k \in 1..Len(call.args) : call.args[k] < k

Ids == 0 .. (Len(containers) - 1)

Children(p) == containers[p + 1].children

\* How many times id c stands in the child list of p.
TimesChildOf(c, p) ==
    Cardinality({j \in 1..Len(Children(p)) : Children(p)[j] = c})

\* c is reached from a by following at most n child links.
RECURSIVE Descends(_, _, _)
Descends(a, c, n) ==
    /\ n > 0
    /\ \E j \in 1..Len(Children(a)) :
          Children(a)[j] = c \/ Descends(Children(a)[j], c, n - 1)

\* C17: container tree invariant. add_container with the id of an existing
\* container as parent does not fail, appends exactly one container, returns
\* the number of containers there were, gives the new container no children and
\* puts its id at the end of the parent's child list, leaving all else as it
\* was; after any number of such calls the root is id 0 and is nobody's child,
\* every other container stands exactly once in exactly one child list, that of
\* a container with a smaller index, and no container descends from itself.
C17_ContainerTree ==
    /\ [][(call'.args # call.args /\ NodeParent < Len(containers))
            => /\ panicked' = "none"
               /\ Len(containers') = Len(containers) + 1
               /\ result' = [returned |-> TRUE, value |-> Len(containers)]
               /\ containers'[Len(containers) + 1].children = <<>>
               /\ containers'[NodeParent + 1].children
                    = Append(containers[NodeParent + 1].children, Len(containers))
               /\ \A i \in 1..Len(containers) :
                     /\ containers'[i].volume = containers[i].volume
                     /\ containers'[i].gas = containers[i].gas
                     /\ containers'[i].fluid = containers[i].fluid
                     /\ containers'[i].solid = containers[i].solid
                     /\ (i # NodeParent + 1)
                          => containers'[i].children = containers[i].children ]_vars
    /\ [](ValidParents =>
            /\ panicked = "none"
            /\ root = 0
            /\ Len(containers) = Len(call.args) + 1
            /\ \A p \in Ids : TimesChildOf(0, p) = 0
            /\ \A c \in Ids \ {0} :
                  /\ \E p \in Ids :
                        /\ p < c
                        /\ TimesChildOf(c, p) = 1
                        /\ \A q \in Ids \ {p} : TimesChildOf(c, q) = 0
            /\ \A c \in Ids : ~Descends(c, c, Len(containers)))

\* A tree of four containers with a grandchild and two siblings: the root has
\* children 1 and 3, and 2 is the child of 1.
C17_Witness ==
    /\ ValidParents
    /\ Len(containers) = 4
    /\ containers[1].children = <<1, 3>>
    /\ containers[2].children = <<2>>
    /\ result = [returned |-> TRUE, value |-> 3]

\* C19: reaction application. A reaction tried on a container is applied if and
\* only if gas + gas_delta, fluid + fluid_delta and solid + solid_delta are all
\* >= 0 in every component at that moment; applied, it leaves the container
\* with exactly the old amounts plus the deltas, once; not applied, it leaves
\* it as it was. O2 2000, CO2 8000, biomass 500 and a respiration of 3 give O2
\* 1997, CO2 8003, gaseous H2O 3 and biomass 497.
C19_AppliedIffFeasible ==
    ReactionTried =>
        /\ last.applied <=> ~Infeasible(TargetBefore, TriedReaction)
        /\ IF \A k \in 1..6 : Fields(TargetBefore)[k] + DeltaFields(TriedReaction)[k] >= 0
           THEN \A k \in 1..6 :
                   Fields(TargetAfter)[k]
                       = Fields(TargetBefore)[k] + DeltaFields(TriedReaction)[k]
           ELSE \A k \in 1..6 : Fields(TargetAfter)[k] = Fields(TargetBefore)[k]
        /\ ( /\ TargetBefore.gas = [o2 |-> 2000, co2 |-> 8000, co |-> 0, h2o |-> 0]
             /\ TargetBefore.solid.ch2o = 500
             /\ DeltaFields(TriedReaction) = <<-3, 3, 0, 3, 0, -3>> )
               => /\ TargetAfter.gas = [o2 |-> 1997, co2 |-> 8003, co |-> 0, h2o |-> 3]
                  /\ TargetAfter.solid.ch2o = 497

\* The first tick of the respiration scenario has applied the reaction.
C19_Witness ==
    /\ ReactionTried /\ last.applied
    /\ TargetBefore.gas.o2 = 2000 /\ TargetBefore.solid.ch2o = 500
    /\ TargetAfter.gas.o2 = 1997 /\ TargetAfter.gas.co2 = 8003
    /\ TargetAfter.gas.h2o = 3 /\ TargetAfter.solid.ch2o = 497

\* C20: pipe flow conserves each species. For a pipe just applied and every
\* species, what endpoint A lost is what endpoint B gained (a negative loss is
\* a flow from B to A), so the amounts of the two endpoints add up to what they
\* did before.
C20_PipeConservesSpecies ==
    PipeApplied =>
        \A s \in Species :
            /\ Of(ABefore.gas, s) - Of(AAfter.gas, s)
                   = Of(BAfter.gas, s) - Of(BBefore.gas, s)
            /\ Of(AAfter.gas, s) + Of(BAfter.gas, s)
                   = Of(ABefore.gas, s) + Of(BBefore.gas, s)

\* CO2 has flowed from endpoint B to endpoint A.
C20_Witness ==
    /\ PipeApplied
    /\ ABefore.gas.co2 - AAfter.gas.co2 < 0
    /\ BAfter.gas.co2 < BBefore.gas.co2

\* The net amount the flow rule moves from A to B: the amount that levels the
\* partial pressures, cut to what the pipe carries and to what the giving side
\* holds (positive volumes).
RuleFlow(x, vx, y, vy, r) ==
    LET level == Quotient(x * vy - y * vx, vx + vy)
        most == IF x <= r THEN x ELSE r
        least == -(IF y <= r THEN y ELSE r)
    IN  IF level > most THEN most ELSE IF level < least THEN least ELSE level

\* The gas g with m of every species taken out (m a gas of amounts).
GasLess(g, m) ==
    [o2 |-> g.o2 - m.o2, co2 |-> g.co2 - m.co2, co |-> g.co - m.co,
     h2o |-> g.h2o - m.h2o]

\* What the flow rule moves along pipe p in table cs, species by species.
RuleFlows(cs, p) ==
    LET x == cs[p.a + 1]
        y == cs[p.b + 1]
    IN  [o2 |-> RuleFlow(x.gas.o2, x.volume, y.gas.o2, y.volume, p.flow_rate.o2),
         co2 |-> RuleFlow(x.gas.co2, x.volume, y.gas.co2, y.volume, p.flow_rate.co2),
         co |-> RuleFlow(x.gas.co, x.volume, y.gas.co, y.volume, p.flow_rate.co),
         h2o |-> RuleFlow(x.gas.h2o, x.volume, y.gas.h2o, y.volume, p.flow_rate.h2o)]

\* The table cs after pipe p alone has flowed.
Piped(cs, p) ==
    LET m == RuleFlows(cs, p)
        back == [o2 |-> -m.o2, co2 |-> -m.co2, co |-> -m.co, h2o |-> -m.h2o]
    IN  [cs EXCEPT ![p.a + 1].gas = GasLess(@, m), ![p.b + 1].gas = GasLess(@, back)]

\* The table cs after pipes 1..k have flowed one after the other, each on the
\* table the one before left.
RECURSIVE PipedInOrder(_, _)
PipedInOrder(cs, k) ==
    IF k = 0 THEN cs ELSE Piped(PipedInOrder(cs, k - 1), pipes[k])

\* The table the reactions of the running tick leave.
AfterReactions == Sequentially(start, Len(reactions))

\* Pipe k has an endpoint in common with a pipe registered before it.
SharesEarlier(k) ==
    \E j \in 1..(k - 1) : {pipes[j].a, pipes[j].b} \cap {pipes[k].a, pipes[k].b} # {}

\* C21: pipe order. Within a tick the pipes flow in the order of the list: after
\* k passes the table is the one the reactions left with pipes 1..k applied one
\* after the other, so pass k computes its flow from the amounts as the earlier
\* pipes changed them; a pipe with no endpoint in common with an earlier pipe
\* finds its two endpoints as the reactions left them.
C21_PipeOrder ==
    /\ (pc = "pipes" /\ panicked = "none")
          => /\ flowed = 1..(idx - 1)
             /\ containers = PipedInOrder(AfterReactions, idx - 1)
    /\ PipeApplied
          => /\ last.before = PipedInOrder(AfterReactions, last.index - 1)
             /\ ~SharesEarlier(last.index)
                   => /\ ABefore = AfterReactions[AppliedPipe.a + 1]
                      /\ BBefore = AfterReactions[AppliedPipe.b + 1]

\* The second pipe shares an endpoint with the first and has moved an amount
\* that differs from what it would have moved on the table the reactions left.
C21_Witness ==
    /\ PipeApplied /\ last.index = 2
    /\ SharesEarlier(2)
    /\ GasLess(ABefore.gas, AAfter.gas) # RuleFlows(AfterReactions, pipes[2])
    /\ GasLess(ABefore.gas, AAfter.gas) # [o2 |-> 0, co2 |-> 0, co |-> 0, h2o |-> 0]

\* s is the beginning of t.
Begins(s, t) == Len(s) <= Len(t) /\ SubSeq(t, 1, Len(s)) = s

\* C22: structure is frozen under tick and grows under registration. No step of
\* a tick() changes the number of containers, a volume, a child list, the root,
\* the pipe list or the reaction list; and no step at all removes or reorders a
\* container, changes the volume of an existing one, moves the root, or changes
\* the pipe or the reaction list other than by appending.
C22_StructureFrame ==
    [][ /\ (pc # "idle" \/ pc' # "idle")
            => /\ Len(containers') = Len(containers)
               /\ \A i \in 1..Len(containers) :
                     /\ containers'[i].volume = containers[i].volume
                     /\ containers'[i].children = containers[i].children
               /\ root' = root
               /\ pipes' = pipes
               /\ reactions' = reactions
        /\ Len(containers') >= Len(containers)
        /\ \A i \in 1..Len(containers) : containers'[i].volume = containers[i].volume
        /\ root' = root
        /\ Begins(pipes, pipes')
        /\ Begins(reactions, reactions') ]_vars

\* A tick of an engine of two containers of different volume, a reaction and a
\* pipe has changed amounts, and the structure is the one it started with.
C22_Witness ==
    /\ last.op = "pipe" /\ last.applied
    /\ Len(containers) = 2 /\ Len(start) = 2
    /\ containers[1].volume # containers[2].volume
    /\ Len(reactions) = 1
    /\ containers # start
    /\ containers[1].children = <<1>>


\* C23: locality. A pass of the pipe loop changes only the gas of the two
\* containers the pipe joins: every fluid and solid, and the gas of every other
\* container, is what it was before the pass. A pass of the reaction loop
\* changes only the container the reaction targets.
C23_Locality ==
    /\ PipeApplied =>
          /\ Len(containers) = Len(last.before)
          /\ \A i \in 1..Len(containers) :
                /\ containers[i].fluid = last.before[i].fluid
                /\ containers[i].solid = last.before[i].solid
                /\ containers[i].volume = last.before[i].volume
                /\ (i - 1) \notin {AppliedPipe.a, AppliedPipe.b}
                      => containers[i].gas = last.before[i].gas
    /\ ReactionTried =>
          /\ Len(containers) = Len(last.before)
          /\ \A i \in 1..Len(containers) :
                i - 1 # TriedReaction.container => containers[i] = last.before[i]

\* A pipe that does not touch the root has moved gas between its two
\* containers, after a reaction changed its target in the same tick, while the
\* root holds gas and solid of its own.
C23_Witness ==
    /\ PipeApplied
    /\ last.flow # gas_zero
    /\ 0 \notin {AppliedPipe.a, AppliedPipe.b}
    /\ containers[1].gas # gas_zero
    /\ containers[1].solid # solid_zero
    /\ Len(reactions) = 1
    /\ AfterReactions # start


\* The call of flow_amount and its arguments.
FlowCalled == call.fn = "flow_amount"

FlowReturned == FlowCalled /\ result.returned

\* The arguments are the ones the engine's own checks let through.
FlowArgsPhysical ==
    /\ call.args[1] >= 0 /\ call.args[3] >= 0
    /\ call.args[2] > 0 /\ call.args[4] > 0
    /\ call.args[5] >= 0

\* C24: overflow-free flow computation. For all amounts, volumes and max_flow
\* of the amount type, the call never ends in an arithmetic panic, and the
\* numerator and the denominator it computes at twice the width are the exact
\* amount_a*volume_b - amount_b*volume_a and volume_a + volume_b. For
\* non-negative amounts, positive volumes and non-negative max_flow the value
\* returned after narrowing is the exact clamped flow, inside the amount type.
C24_WidenedFlow ==
    /\ FlowCalled => panicked = "none"
    /\ FlowReturned =>
          LET a == call.args[1]
              va == call.args[2]
              b == call.args[3]
              vb == call.args[4]
              r == call.args[5]
              out == result.value
          IN  /\ ~wide_overflows(a * vb) /\ ~wide_overflows(b * va)
              /\ ~wide_overflows(a * vb - b * va) /\ ~wide_overflows(va + vb)
              /\ out.numerator = a * vb - b * va
              /\ out.denom = va + vb
              /\ FlowArgsPhysical =>
                    /\ out.value = RuleFlow(a, va, b, vb, r)
                    /\ ~overflows(RuleFlow(a, va, b, vb, r))
                    /\ out.value >= -Min(b, r) /\ out.value <= Min(a, r)

\* A call with physical arguments whose numerator does not fit the amount
\* type has returned a flow that is not zero.
C24_Witness ==
    /\ FlowReturned
    /\ FlowArgsPhysical
    /\ overflows(result.value.numerator)
    /\ overflows(call.args[1] * call.args[4])
    /\ result.value.value # 0


\* The carbon, hydrogen and oxygen atoms of one container, and of a table.
Atoms(c) == <<CarbonAtoms(c), HydrogenAtoms(c), OxygenAtoms(c)>>

RECURSIVE TotalAtoms(_)
TotalAtoms(cs) ==
    IF cs = <<>> THEN <<0, 0, 0>>
    ELSE LET rest == TotalAtoms(SubSeq(cs, 1, Len(cs) - 1))
             here == Atoms(cs[Len(cs)])
         IN  <<rest[1] + here[1], rest[2] + here[2], rest[3] + here[3]>>

\* C25: engine-wide atom conservation. During and after every tick the totals
\* over all containers of carbon, hydrogen and oxygen atoms are the totals the
\* tick started with; over all steps the totals change only in a step that
\* adds a container, and then by the atoms of the new container.
C25_AtomTotals ==
    /\ [](pc # "idle" => TotalAtoms(containers) = TotalAtoms(start))
    /\ [][ IF Len(containers') > Len(containers)
           THEN /\ Len(containers') = Len(containers) + 1
                /\ TotalAtoms(containers') =
                      TotalAtoms(containers \o <<containers'[Len(containers')]>>)
           ELSE TotalAtoms(containers') = TotalAtoms(containers) ]_vars

\* In one tick a reaction has changed the atoms of a container and a pipe has
\* moved gas out of or into it, and the totals are the ones the tick started
\* with.
C25_Witness ==
    /\ PipeApplied
    /\ last.flow # gas_zero
    /\ AllVolumesPositive
    /\ Len(reactions) >= 1
    /\ AfterReactions # start
    /\ \E i \in 1..Len(containers) : Atoms(containers[i]) # Atoms(AfterReactions[i])
    /\ TotalAtoms(containers) = TotalAtoms(start)
    /\ TotalAtoms(containers) # <<0, 0, 0>>


\* The pipe p turned round; the gas g with every amount negated.
Reversed(p) == Pipe(p.b, p.a, p.flow_rate)

Negated(g) == Gas(-g.o2, -g.co2, -g.co, -g.h2o)

\* C26: pipe orientation does not matter. For the single pipe just applied to
\* two containers of positive volume and non-negative amounts, the paired
\* access returned the pipe's a first and its b second, the flow the reversed
\* pipe computes on the same table is the exact negation of the flow computed,
\* and the reversed pipe leaves the very table this pipe left.
C26_OrientationFree ==
    (PipeApplied /\ \A s \in Species : FlowGiven(s)) =>
        /\ container_pair_mut(AppliedPipe.a, AppliedPipe.b)
              = <<AppliedPipe.a, AppliedPipe.b>>
        /\ container_pair_mut(AppliedPipe.b, AppliedPipe.a)
              = <<AppliedPipe.b, AppliedPipe.a>>
        /\ pipe_flows(last.before, Reversed(AppliedPipe)) = Negated(last.flow)
        /\ apply_pipe_flow(last.before, Reversed(AppliedPipe)) = containers

\* The pipe from the higher to the lower id has moved gas, between containers
\* of different volume.
C26_Witness ==
    /\ PipeApplied /\ \A s \in Species : FlowGiven(s)
    /\ AppliedPipe.a = 1 /\ AppliedPipe.b = 0
    /\ ABefore.volume # BBefore.volume
    /\ last.flow # gas_zero
    /\ AAfter.gas # ABefore.gas


\* amount_a*volume_b - amount_b*volume_a of species s for the endpoints x, y:
\* positive when x has the higher partial pressure.
Gradient(x, y, s) == Of(x.gas, s) * y.volume - Of(y.gas, s) * x.volume

\* C27: flow only runs down the pressure gradient and never overshoots. For a
\* pipe just applied and a species with non-negative amounts at both endpoints
\* of positive volume, the flow is >= 0 when A has at least B's partial
\* pressure and <= 0 when it has at most B's (so zero when they are equal), and
\* afterwards the endpoint that had the higher partial pressure does not have
\* the lower one.
C27_DownGradient ==
    PipeApplied =>
        \A s \in Species :
            FlowGiven(s) =>
                LET before == Gradient(ABefore, BBefore, s)
                    after == Gradient(AAfter, BAfter, s)
                    flow == Of(last.flow, s)
                IN  /\ before >= 0 => (flow >= 0 /\ after >= 0)
                    /\ before <= 0 => (flow <= 0 /\ after <= 0)
                    /\ before = 0 => flow = 0

\* O2 has flowed from B to A and left B with the higher partial pressure still;
\* the levelling amount was not a whole number.
C27_Witness ==
    /\ PipeApplied /\ FlowGiven("o2")
    /\ last.flow.o2 < 0
    /\ Gradient(AAfter, BAfter, "o2") < 0
    /\ Gradient(ABefore, BBefore, "o2") % (ABefore.volume + BBefore.volume) # 0
    /\ Abs(last.flow.o2) < AppliedPipe.flow_rate.o2


\* Two containers of positive volume holding non-negative amounts of gas,
\* joined by a single pipe, and no reaction.
Joint ==
    /\ Len(containers) = 2 /\ Len(pipes) = 1 /\ reactions = <<>>
    /\ AllVolumesPositive
    /\ \A i \in 1..2 : is_non_negative(containers[i].gas)

\* The running tick has changed nothing so far.
Quiet == pc # "idle" => containers = start

\* The loops of the running tick are through and have changed nothing.
TickStill == pc = "pipes" /\ idx > Len(pipes) /\ panicked = "none" /\ containers = start

\* C28: repeated ticks reach a fixed point. On two joined containers as in
\* Joint, ticking on and on leads to a point from which no tick changes the
\* table any more; a tick that changed nothing leaves, for every species the
\* pipe carries at a rate >= 1, |amount_a*volume_b - amount_b*volume_a| below
\* volume_a + volume_b; and no step changes the amount of a species whose flow
\* rate is 0.
C28_ReachesFixedPoint ==
    /\ Joint => <>[]Quiet
    /\ [](Joint /\ TickStill =>
            \A s \in Species :
                Of(pipes[1].flow_rate, s) >= 1 =>
                    Abs(Gradient(containers[pipes[1].a + 1],
                                 containers[pipes[1].b + 1], s))
                        < containers[1].volume + containers[2].volume)
    /\ [][ Joint =>
             \A s \in Species :
                 Of(pipes[1].flow_rate, s) = 0 =>
                     \A i \in 1..2 :
                         Of(containers'[i].gas, s) = Of(containers[i].gas, s) ]_vars

\* The tick after the one that moved 667 of the 1000 O2 into the container of
\* twice the volume has changed nothing, with the gradient left at 50 < 150.
C28_Witness ==
    /\ Joint /\ TickStill
    /\ containers[1].volume = 100 /\ containers[2].volume = 50
    /\ containers[1].gas.o2 = 667 /\ containers[2].gas.o2 = 333
    /\ Gradient(containers[1], containers[2], "o2") = 50


\* C29: a skip is per tick and never latched. A reaction that was skipped in an
\* earlier tick is applied in the pass that finds its container holding enough
\* of everything it consumes, and a reaction that was applied in an earlier
\* tick is skipped in the pass that finds it infeasible: what happened in
\* earlier ticks plays no part.
C29_SkipNotLatched ==
    ReactionTried =>
        /\ (last.index \in seen.skipped /\ ~Infeasible(TargetBefore, TriedReaction))
              => /\ last.applied
                 /\ \A k \in 1..6 :
                       Fields(TargetAfter)[k]
                           = Fields(TargetBefore)[k] + DeltaFields(TriedReaction)[k]
        /\ (last.index \in seen.applied /\ Infeasible(TargetBefore, TriedReaction))
              => /\ ~last.applied
                 /\ TargetAfter = TargetBefore

\* The reaction splitting CO2 in a container that held none was skipped in an
\* earlier tick and is applied now, a pipe having brought CO2 in between.
C29_Witness ==
    /\ ReactionTried /\ last.applied
    /\ last.index \in seen.skipped
    /\ TriedReaction.gas_delta.co2 < 0
    /\ start[TriedReaction.container + 1].gas.co2 >= 2
    /\ TargetAfter.gas.co2 = TargetBefore.gas.co2 - 2

====
